---- MODULE Spec2Model ----
(***************************************************************************)
(* Model of the voice-trigger pipeline (src/src/voice_trigger): the audio   *)
(* callback, the frame-consumer loop of main(), the asr_worker thread, the  *)
(* UDP listener thread, the segmenter, the phrase matcher and the listening *)
(* gate.                                                                    *)
(*                                                                          *)
(* A string is a sequence of one-character strings.  Characters outside     *)
(* ASCII are named: "e_acute" is U+00E9, "E_acute" is U+00C9, "comb_acute"  *)
(* is U+0301, "nbsp" is U+00A0, "script_H" is U+210B.  Time is counted in   *)
(* whole seconds.                                                           *)
(***************************************************************************)
EXTENDS Integers, Sequences, FiniteSets, TLC

\* ------------------------------------------------------------------ bounds
\* Frames the audio callback delivers in one run.
MaxFrames == 3
\* Last value of the clock.
MaxClock == 10
\* Value of time.time() when the pipeline starts.
ClockStart == 5
\* Frames given to a segmenter driven on its own.
MaxFed == 5
\* Length of the strings normalize_text is tried on.
MaxLen == 3

\* ------------------------------------------------------- program constants
threshold == 85
cooldown_sec == 4
min_chars == 3
require_all_tokens == TRUE
max_segment_sec == 2
frame_ms == 20
sample_rate == 16000
\* queue.Queue() is built without a maxsize: 0 means "infinite"
QueueMaxsize == 0

\* ------------------------------------------------------------------ strings
Lowers == <<"a","b","c","d","e","f","g","h","i","j","k","l","m","n","o","p",
            "q","r","s","t","u","v","w","x","y","z","e_acute">>
Uppers == <<"A","B","C","D","E","F","G","H","I","J","K","L","M","N","O","P",
            "Q","R","S","T","U","V","W","X","Y","Z","E_acute">>

\* str.upper() and str.lower() of one character, as tables
UpperMap == [c \in {Lowers[i] : i \in 1..Len(Lowers)} |->
                Uppers[CHOOSE i \in 1..Len(Lowers) : Lowers[i] = c]]
LowerMap == [c \in {Uppers[i] : i \in 1..Len(Uppers)} |->
                Lowers[CHOOSE i \in 1..Len(Uppers) : Uppers[i] = c]]

UpperCh(c) == IF c \in DOMAIN UpperMap THEN UpperMap[c] ELSE c
LowerCh(c) == IF c \in DOMAIN LowerMap THEN LowerMap[c] ELSE c

Upper(s) == [i \in 1..Len(s) |-> UpperCh(s[i])]
Lower(s) == [i \in 1..Len(s) |-> LowerCh(s[i])]

\* str.isspace() of one character
IsSpace(c) == c \in {" ", "nbsp"}

RECURSIVE LStrip(_)
LStrip(s) == IF s # <<>> /\ IsSpace(Head(s)) THEN LStrip(Tail(s)) ELSE s

RECURSIVE RStrip(_)
RStrip(s) ==
    IF s # <<>> /\ IsSpace(s[Len(s)]) THEN RStrip(SubSeq(s, 1, Len(s) - 1)) ELSE s

\* str.strip()
Strip(s) == RStrip(LStrip(s))

\* str.startswith(p)
StartsWith(s, p) == Len(s) >= Len(p) /\ SubSeq(s, 1, Len(p)) = p

\* ":" in s
HasColon(s) == \E i \in 1..Len(s) : s[i] = ":"

\* s.split(":", 1)[1], for a string holding a colon
AfterColon(s) ==
    LET k == CHOOSE i \in 1..Len(s) : s[i] = ":" /\ \A j \in 1..(i - 1) : s[j] # ":"
    IN  SubSeq(s, k + 1, Len(s))

\* unicodedata.normalize("NFKD", c) of one character
NFKD(c) ==
    CASE c = "e_acute" -> <<"e", "comb_acute">>
      [] c = "E_acute" -> <<"E", "comb_acute">>
      [] c = "nbsp"    -> <<" ">>
      [] c = "script_H" -> <<"H">>
      [] OTHER         -> <<c>>

\* unicodedata.combining(c) # 0
Combining(c) == c = "comb_acute"

RECURSIVE Decompose(_)
\* "".join(c for c in normalize("NFKD", s) if not combining(c))
Decompose(s) ==
    IF s = <<>> THEN <<>>
    ELSE SelectSeq(NFKD(Head(s)), LAMBDA c : ~Combining(c)) \o Decompose(Tail(s))

Punctuation == {",", ".", ";", ":", "!", "?", "\"", "'", "(", ")", "[", "]", "{", "}"}

\* the s.replace(ch, " ") loop
Depunctuate(s) == [i \in 1..Len(s) |-> IF s[i] \in Punctuation THEN " " ELSE s[i]]

RECURSIVE Words(_, _)
\* s.split(): the maximal runs of non-space characters, cur being the run in progress
Words(s, cur) ==
    IF s = <<>> THEN (IF cur = <<>> THEN <<>> ELSE <<cur>>)
    ELSE IF IsSpace(Head(s))
         THEN (IF cur = <<>> THEN <<>> ELSE <<cur>>) \o Words(Tail(s), <<>>)
         ELSE Words(Tail(s), Append(cur, Head(s)))

Split(s) == Words(s, <<>>)

RECURSIVE Join(_)
\* " ".join(ws)
Join(ws) ==
    IF ws = <<>> THEN <<>>
    ELSE IF Len(ws) = 1 THEN ws[1]
    ELSE ws[1] \o <<" ">> \o Join(Tail(ws))

normalize_text(s) == Join(Split(Depunctuate(Decompose(Strip(Lower(s))))))

TokenSet(s) == {Split(s)[i] : i \in 1..Len(Split(s))}

\* ------------------------------------------------------------ trigger table
\* The triggers JSON given with --triggers, in file order: "hey", "go on", and
\* "nop" bound to the empty command.
TriggersRaw ==
    << [phrase |-> <<"h","e","y">>,         cmd |-> <<"x","1">>],
       [phrase |-> <<"g","o"," ","o","n">>, cmd |-> <<"x","2">>],
       [phrase |-> <<"n","o","p">>,         cmd |-> <<>>] >>

RECURSIVE Dedup(_)
\* the keys of a dict filled in this order: first insertion keeps the place
Dedup(ks) ==
    IF ks = <<>> THEN <<>>
    ELSE LET init == Dedup(SubSeq(ks, 1, Len(ks) - 1))
             k    == ks[Len(ks)]
         IN  IF \E i \in 1..Len(init) : init[i] = k THEN init ELSE Append(init, k)

\* the value a dict filled in this order holds for key k: the last one written
LastValue(entries, k) ==
    entries[CHOOSE i \in 1..Len(entries) :
                /\ entries[i].phrase = k
                /\ \A j \in (i + 1)..Len(entries) : entries[j].phrase # k].cmd

\* {f(k): v for k, v in entries}, as the sequence of its items
Rekey(entries) ==
    LET renamed == [i \in 1..Len(entries) |->
                        [phrase |-> normalize_text(entries[i].phrase),
                         cmd    |-> entries[i].cmd]]
        keys    == Dedup([i \in 1..Len(renamed) |-> renamed[i].phrase])
    IN  [i \in 1..Len(keys) |-> [phrase |-> keys[i], cmd |-> LastValue(renamed, keys[i])]]

\* main(): triggers = {normalize_text(k): v for k, v in triggers_raw.items()}
triggers == Rekey(TriggersRaw)

\* PhraseMatcher.__init__: self.triggers, keyed by normalize_text(phrase) once more
matcher_triggers == Rekey(triggers)

HasKey(table, k) == \E i \in 1..Len(table) : table[i].phrase = k
Lookup(table, k) == table[CHOOSE i \in 1..Len(table) : table[i].phrase = k].cmd

\* --------------------------------------------------------- phrase matcher
Max(a, b) == IF a >= b THEN a ELSE b

RECURSIVE LCS(_, _)
\* length of the longest common subsequence
LCS(a, b) ==
    IF a = <<>> \/ b = <<>> THEN 0
    ELSE IF Head(a) = Head(b) THEN 1 + LCS(Tail(a), Tail(b))
    ELSE Max(LCS(Tail(a), b), LCS(a, Tail(b)))

\* int(fuzz.ratio(a, b)): the normalised Indel similarity, truncated
ratio(a, b) ==
    IF Len(a) + Len(b) = 0 THEN 100
    ELSE (200 * LCS(a, b)) \div (Len(a) + Len(b))

\* fuzz.ratio(txt, a) > fuzz.ratio(txt, b) on the scores before truncation, for
\* the non-empty txt that match() scores
Better(txt, a, b) ==
    LCS(txt, a) * (Len(txt) + Len(b)) > LCS(txt, b) * (Len(txt) + Len(a))

\* the candidate filter of match(): phrases kept for a transcript
IsCandidate_NoFilter(phrase, txt) == TRUE

\* the phrase is kept as a candidate for the normalized transcript txt
IsCandidate(phrase, txt) ==
    ~(require_all_tokens /\ Cardinality(TokenSet(phrase)) > 1
        /\ ~(TokenSet(phrase) \subseteq TokenSet(txt)))

candidates(txt) ==
    SelectSeq([i \in 1..Len(matcher_triggers) |-> matcher_triggers[i].phrase],
              LAMBDA p : IsCandidate(p, txt))

\* process.extractOne(txt, cands, scorer=fuzz.ratio): the first of the best
extractOne(txt, cands) ==
    cands[CHOOSE i \in 1..Len(cands) :
            /\ \A j \in 1..Len(cands) : ~Better(txt, cands[j], cands[i])
            /\ \A j \in 1..(i - 1) : Better(txt, cands[i], cands[j])]

\* self._cooldowns.get(phrase, 0.0)
CooldownGet(cd, phrase) == IF phrase \in DOMAIN cd THEN cd[phrase] ELSE 0

\* self._cooldowns[phrase] = t
CooldownSet(cd, phrase, t) ==
    [p \in (DOMAIN cd) \cup {phrase} |-> IF p = phrase THEN t ELSE cd[p]]

CooldownElapsed_Never(t, last) == (t - last) >= 0

\* (now - last) >= self.cooldown_sec
CooldownElapsed(t, last) == (t - last) >= cooldown_sec

\* texts handed to match(): exact, near (score 85), punctuated, two-token, low
\* score, too short, and one word close to the two-token phrase (score 88)
MatcherTranscripts ==
    { <<"h","e","y">>, <<"h","e","y","a">>, <<"H","e","y","!">>,
      <<"g","o"," ","o","n">>, <<"k","e","y">>, <<"g","o">>, <<"g","o","o","n">> }

\* the transcript matched while the control plane is exercised
ControlTranscripts == { <<"h","e","y">> }

\* what the transcriber may return for a segment
PipelineTranscripts == { <<>>, <<"h","e","y">> }

\* the part of match() that reads no clock: whether any phrase was scored, the
\* best phrase and int(score)
best(text) ==
    LET txt == normalize_text(text) IN
    IF txt = <<>> \/ Len(txt) < min_chars \/ candidates(txt) = <<>>
    THEN [scored |-> FALSE, phrase |-> <<>>, score |-> 0]
    ELSE [scored |-> TRUE, phrase |-> extractOne(txt, candidates(txt)),
          score |-> ratio(txt, extractOne(txt, candidates(txt)))]

\* best, tabulated once over the transcripts of the specifications
BestTable ==
    [text \in MatcherTranscripts \cup ControlTranscripts \cup PipelineTranscripts |->
        best(text)]

NoMatch(text, score, cd) ==
    [text |-> text, matched |-> FALSE, phrase |-> <<>>, command |-> <<>>,
     score |-> score, cooldowns |-> cd]

Accepted(text, b, t, cd) ==
    [text |-> text, matched |-> TRUE, phrase |-> b.phrase,
     command |-> Lookup(matcher_triggers, b.phrase), score |-> b.score,
     cooldowns |-> CooldownSet(cd, b.phrase, t)]

match_SlidingWindow(text, t, cd) ==
    LET b == BestTable[text] IN
    IF ~b.scored THEN NoMatch(text, 0, cd)
    ELSE IF b.score >= threshold
    THEN IF CooldownElapsed(t, CooldownGet(cd, b.phrase))
         THEN Accepted(text, b, t, cd)
         ELSE NoMatch(text, b.score, CooldownSet(cd, b.phrase, t))
    ELSE NoMatch(text, b.score, cd)

\* PhraseMatcher.match(text) called when time.time() is t and the registry is cd:
\* what it returns, and the registry it leaves
match(text, t, cd) ==
    LET b == BestTable[text] IN
    IF ~b.scored THEN NoMatch(text, 0, cd)
    ELSE IF b.score >= threshold /\ CooldownElapsed(t, CooldownGet(cd, b.phrase))
    THEN Accepted(text, b, t, cd)
    ELSE NoMatch(text, b.score, cd)

\* ------------------------------------------------------------ UDP listener
CTRL    == <<"C","T","R","L",":">>
TRIGGER == <<"T","R","I","G","G","E","R",":">>
CMD     == <<"C","M","D",":">>
PAUSE   == <<"P","A","U","S","E">>
RESUME  == <<"R","E","S","U","M","E">>

\* what one datagram does: the gate order it gives and the command it runs
NoRun == [src |-> "none", cmd |-> <<>>]
Nothing == [gate |-> "keep", run |-> NoRun]

TokenAccepts_ColonOnly(token, msg) == HasColon(msg)

\* not (":" not in msg or not msg.startswith(cfg.token + ":"))
TokenAccepts(token, msg) == HasColon(msg) /\ StartsWith(msg, token \o <<":">>)

CtrlAction_Prefix(action) ==
    IF StartsWith(action, PAUSE) THEN [gate |-> "pause", run |-> NoRun]
    ELSE IF StartsWith(action, RESUME) THEN [gate |-> "resume", run |-> NoRun]
    ELSE Nothing

\* the CTRL branch: action is up.split(":", 1)[1].strip()
CtrlAction(action) ==
    IF action = PAUSE THEN [gate |-> "pause", run |-> NoRun]
    ELSE IF action = RESUME THEN [gate |-> "resume", run |-> NoRun]
    ELSE Nothing

on_trigger_Raw(phrase) ==
    IF HasKey(triggers, phrase) /\ Lookup(triggers, phrase) # <<>>
    THEN [gate |-> "keep", run |-> [src |-> "trigger", cmd |-> Lookup(triggers, phrase)]]
    ELSE [gate |-> "keep", run |-> NoRun]

\* on_trigger(phrase)
on_trigger(phrase) ==
    LET p == normalize_text(phrase) IN
    IF HasKey(triggers, p) /\ Lookup(triggers, p) # <<>>
    THEN [gate |-> "keep", run |-> [src |-> "trigger", cmd |-> Lookup(triggers, p)]]
    ELSE Nothing

\* on_cmd(shell)
on_cmd(shell) == [gate |-> "keep", run |-> [src |-> "cmd", cmd |-> shell]]

CmdAllowed_Always(allow_cmd) == TRUE

\* not (not cfg.allow_cmd)
CmdAllowed(allow_cmd) == allow_cmd

\* the CMD branch
CmdAction(allow_cmd, msg) ==
    IF ~CmdAllowed(allow_cmd) THEN Nothing
    ELSE IF Strip(AfterColon(msg)) # <<>> THEN on_cmd(Strip(AfterColon(msg)))
    ELSE Nothing

\* the dispatch on the verb, for a message that passed the token check
Dispatch(allow_cmd, msg) ==
    LET up == Upper(msg) IN
    IF StartsWith(up, CTRL) THEN CtrlAction(Strip(AfterColon(up)))
    ELSE IF StartsWith(up, TRIGGER) THEN on_trigger(Strip(AfterColon(msg)))
    ELSE IF StartsWith(up, CMD) THEN CmdAction(allow_cmd, msg)
    ELSE Nothing

\* data.decode("utf-8", errors="ignore"): "xFF" is a byte that is not UTF-8
Decode(data) == SelectSeq(data, LAMBDA c : c # "xFF")

\* one iteration of the listener loop on the datagram data
Handle(token, allow_cmd, data) ==
    LET msg == Strip(Decode(data)) IN
    IF token # <<>>
    THEN IF TokenAccepts(token, msg) THEN Dispatch(allow_cmd, AfterColon(msg))
         ELSE Nothing
    ELSE Dispatch(allow_cmd, msg)

set_listening_Stuck(flag) == TRUE

\* set_listening(flag): the value the event holds afterwards
set_listening(flag) == flag

on_pause == set_listening(FALSE)
on_resume == set_listening(TRUE)

GateAfter(gate, order) ==
    IF order = "pause" THEN on_pause
    ELSE IF order = "resume" THEN on_resume
    ELSE gate

\* --------------------------------------------------------------- segmenter
NoTime == -1

\* self.frame_len = int(cfg.sample_rate * (cfg.frame_ms / 1000.0))
frame_len == (sample_rate * frame_ms) \div 1000

\* self.frame_bytes = self.frame_len * 2: the length process_one_frame insists on
frame_bytes == frame_len * 2

\* len(b"".join(frames)), each frame being frame_bytes long
ByteLen(frames) == Len(frames) * frame_bytes

\* SpeechSegmenter.reset()
reset ==
    [speech_frames |-> <<>>, trailing_non_speech |-> 0, in_speech |-> FALSE,
     start_time |-> NoTime]

\* self.pad_frames = int(cfg.speech_pad_ms / cfg.frame_ms)
pad_frames(speech_pad_ms) == speech_pad_ms \div frame_ms

min_frames_before_transcribe_Zero(min_speech_ms) == 0

\* min_frames_before_transcribe(): int((cfg.min_speech_sec * 1000) / cfg.frame_ms)
min_frames_before_transcribe(min_speech_ms) == min_speech_ms \div frame_ms

Absorb_BufferIdle(sg, frame, t, pad) ==
    IF frame.speech
    THEN [speech_frames |-> Append(sg.speech_frames, frame),
          trailing_non_speech |-> 0,
          in_speech |-> TRUE,
          start_time |-> IF sg.in_speech THEN sg.start_time ELSE t]
    ELSE IF sg.in_speech
    THEN [sg EXCEPT !.trailing_non_speech = @ + 1,
                    !.speech_frames = IF sg.trailing_non_speech + 1 <= pad
                                      THEN Append(@, frame) ELSE @]
    ELSE [sg EXCEPT !.speech_frames = <<frame>>]

Absorb_StrictPad(sg, frame, t, pad) ==
    IF frame.speech
    THEN [speech_frames |-> Append(sg.speech_frames, frame),
          trailing_non_speech |-> 0,
          in_speech |-> TRUE,
          start_time |-> IF sg.in_speech THEN sg.start_time ELSE t]
    ELSE IF sg.in_speech
    THEN [sg EXCEPT !.trailing_non_speech = @ + 1,
                    !.speech_frames = IF sg.trailing_non_speech + 1 < pad
                                      THEN Append(@, frame) ELSE @]
    ELSE sg

\* the speech / non-speech branches of process_one_frame, before any finalize
Absorb(sg, frame, t, pad) ==
    IF frame.speech
    THEN [speech_frames |-> Append(sg.speech_frames, frame),
          trailing_non_speech |-> 0,
          in_speech |-> TRUE,
          start_time |-> IF sg.in_speech THEN sg.start_time ELSE t]
    ELSE IF sg.in_speech
    THEN [sg EXCEPT !.trailing_non_speech = @ + 1,
                    !.speech_frames = IF sg.trailing_non_speech + 1 <= pad
                                      THEN Append(@, frame) ELSE @]
    ELSE sg

\* the first finalize of process_one_frame: a non-speech frame in speech brings
\* the trailing count to pad_frames
SilenceCut(sg, frame, s1, pad) ==
    ~frame.speech /\ sg.in_speech /\ s1.trailing_non_speech >= pad

\* the second finalize: self.in_speech and self.start_time and
\* (time.time() - self.start_time) > max_segment_sec
TimeCut(s1, t) ==
    /\ s1.in_speech
    /\ s1.start_time # NoTime /\ s1.start_time # 0
    /\ (t - s1.start_time) > max_segment_sec

process_one_frame_NoReset(sg, frame, t, pad) ==
    LET s1 == Absorb(sg, frame, t, pad) IN
    IF SilenceCut(sg, frame, s1, pad) \/ TimeCut(s1, t)
    THEN [segmenter |-> [s1 EXCEPT !.trailing_non_speech = 0, !.start_time = t],
          emitted |-> TRUE, seg |-> s1.speech_frames]
    ELSE [segmenter |-> s1, emitted |-> FALSE, seg |-> <<>>]

process_one_frame_NoTimeCut(sg, frame, t, pad) ==
    LET s1 == Absorb(sg, frame, t, pad) IN
    IF SilenceCut(sg, frame, s1, pad)
    THEN [segmenter |-> reset, emitted |-> TRUE, seg |-> s1.speech_frames]
    ELSE [segmenter |-> s1, emitted |-> FALSE, seg |-> <<>>]

process_one_frame_CutAtBoundary(sg, frame, t, pad) ==
    LET s1 == Absorb(sg, frame, t, pad) IN
    IF SilenceCut(sg, frame, s1, pad)
          \/ (s1.in_speech /\ (t - s1.start_time) >= max_segment_sec)
    THEN [segmenter |-> reset, emitted |-> TRUE, seg |-> s1.speech_frames]
    ELSE [segmenter |-> s1, emitted |-> FALSE, seg |-> <<>>]

\* process_one_frame(frame) when time.time() is t: the state it leaves and the
\* segment it returns (emitted is "seg is not None")
process_one_frame(sg, frame, t, pad) ==
    LET s1 == Absorb(sg, frame, t, pad)
    IN  IF SilenceCut(sg, frame, s1, pad) \/ TimeCut(s1, t)
        THEN [segmenter |-> reset, emitted |-> TRUE, seg |-> s1.speech_frames]
        ELSE [segmenter |-> s1, emitted |-> FALSE, seg |-> <<>>]

\* ------------------------------------------------------------------- state
VARIABLES
    cfg,            \* the command line: udp_token, allow_udp_cmd, speech_pad_ms, min_speech_ms
    now,            \* time.time()
    listening,      \* _LISTENING_EVT
    stop_evt,       \* stop_evt
    audio_q,        \* AudioInput.q
    segments_q,     \* segments_q
    produced,       \* frames the audio callback has delivered
    segmenter,      \* the SpeechSegmenter's fields
    main_pc,        \* where the frame loop of main() is
    main_frame,     \* its local "frame"
    worker_pc,      \* where asr_worker is
    worker_seg,     \* its local "seg"
    worker_text,    \* its local "text"
    listener_pc,    \* where listener_thread is
    cooldowns,      \* PhraseMatcher._cooldowns
    inp,            \* the datagram the last step handled, if it was a listener step
    out,            \* the command the last step passed to run_command, if any
    ret,            \* what the last step's matcher.match call returned, if it made one
    last_ctrl,      \* the last PAUSE / RESUME order the listener carried out
    stale,          \* ids of the frames the segmenter held when a PAUSE closed the gate
                    \* (with no frame between the gate check and the segmenter)
    last_accept,    \* per phrase, when match() last and next-to-last returned a Match Result
    fed             \* the frames a segmenter driven on its own was given, each with the
                    \* clock value of its process_one_frame call

vars == <<cfg, now, listening, stop_evt, audio_q, segments_q, produced, segmenter,
          main_pc, main_frame, worker_pc, worker_seg, worker_text, listener_pc,
          cooldowns, inp, out, ret, last_ctrl, stale, last_accept, fed>>

NoInp == [got |-> FALSE, msg |-> <<>>]
NoRet == [called |-> FALSE, text |-> <<>>, matched |-> FALSE, phrase |-> <<>>,
          score |-> 0]
NoFrame == [id |-> 0, speech |-> FALSE]

\* a step that handles no datagram, runs no command and calls no match
Quiet == inp' = NoInp /\ out' = NoRun /\ ret' = NoRet

\* Queue.put blocks only while maxsize > 0 and the queue holds maxsize items
QueueHasRoom(q) == QueueMaxsize <= 0 \/ Len(q) < QueueMaxsize

\* the process is gone once main() has returned: the other threads are daemons
Running == main_pc # "exited"

InitWith(configs, clocks, texts) ==
    /\ cfg \in configs
    /\ now \in clocks
    /\ listening = TRUE
    /\ stop_evt = FALSE
    /\ audio_q = <<>>
    /\ segments_q = <<>>
    /\ produced = 0
    /\ segmenter = reset
    /\ main_pc = "loop"
    /\ main_frame = NoFrame
    /\ worker_pc = "loop"
    /\ worker_seg = <<>>
    /\ worker_text \in texts
    /\ listener_pc = "recv"
    /\ cooldowns = <<>>
    /\ inp = NoInp
    /\ out = NoRun
    /\ ret = NoRet
    /\ last_ctrl = "none"
    /\ stale = {}
    /\ last_accept = <<>>
    /\ fed = <<>>

\* ------------------------------------------------------------------ inputs
Tok(token, body) == token \o <<":">> \o body

Tokens == {<<>>, <<"k">>, <<"k", ":", "j">>}

Bodies ==
    { CTRL \o PAUSE,
      CTRL \o RESUME,
      Lower(CTRL \o PAUSE),
      CTRL \o <<" ">> \o PAUSE,
      CTRL \o PAUSE \o <<"D">>,
      <<" ">> \o CTRL \o PAUSE,
      PAUSE,
      TRIGGER \o <<"h","e","y">>,
      TRIGGER \o <<"H","e","y","!">>,
      TRIGGER \o <<"y","o">>,
      TRIGGER \o <<"n","o","p">>,
      CMD \o <<"l","s">> }

\* datagrams sent to a listener that may or may not want a token
ControlDatagrams ==
    Bodies
    \cup {Tok(t, b) : t \in Tokens \ {<<>>}, b \in Bodies}
    \cup {<<" ">> \o Tok(<<"k">>, CTRL \o PAUSE), Tok(<<"z">>, CTRL \o PAUSE),
          <<"k">> \o CTRL \o PAUSE, <<"xFF">> \o Tok(<<"k">>, CTRL \o RESUME)}

ControlConfigs ==
    [udp_token : Tokens, allow_udp_cmd : BOOLEAN, speech_pad_ms : {120},
     min_speech_ms : {250}]

\* the running pipeline: no token, --speech_pad_ms 20, --min_speech 0.04
PipelineConfigs ==
    [udp_token : {<<>>}, allow_udp_cmd : BOOLEAN, speech_pad_ms : {20},
     min_speech_ms : {40}]

PipelineDatagrams ==
    { CTRL \o PAUSE, CTRL \o RESUME, TRIGGER \o <<"h","e","y">>, CMD \o <<"l","s">> }

\* Handle, tabulated once over the settings and datagrams of the specifications
HandleTable ==
    [t \in Tokens, a \in BOOLEAN, d \in ControlDatagrams \cup PipelineDatagrams |->
        Handle(t, a, d)]

\* ----------------------------------------------------------------- actions
\* the clock advances
Tick ==
    /\ Running
    /\ now < MaxClock
    /\ now' = now + 1
    /\ Quiet
    /\ UNCHANGED <<fed, cfg, listening, stop_evt, audio_q, segments_q, produced, segmenter,
                   main_pc, main_frame, worker_pc, worker_seg, worker_text,
                   listener_pc, cooldowns, last_ctrl, stale, last_accept>>

\* SIGINT: the handler sets stop_evt
Sigint ==
    /\ Running
    /\ ~stop_evt
    /\ stop_evt' = TRUE
    /\ Quiet
    /\ UNCHANGED <<fed, cfg, now, listening, audio_q, segments_q, produced, segmenter,
                   main_pc, main_frame, worker_pc, worker_seg, worker_text,
                   listener_pc, cooldowns, last_ctrl, stale, last_accept>>

Listener_Gated(data) ==
    /\ Running
    /\ listener_pc = "recv"
    /\ \E e \in {HandleTable[cfg.udp_token, cfg.allow_udp_cmd, data]} :
        /\ listening' = GateAfter(listening, e.gate)
        /\ last_ctrl' = IF e.gate = "keep" THEN last_ctrl ELSE e.gate
        /\ stale' = IF listening /\ ~GateAfter(listening, e.gate) /\ main_pc # "frame"
                    THEN stale \cup {segmenter.speech_frames[i].id :
                                        i \in 1..Len(segmenter.speech_frames)}
                    ELSE stale
        /\ out' = IF listening THEN e.run ELSE NoRun
    /\ inp' = [got |-> TRUE, msg |-> data]
    /\ ret' = NoRet
    /\ UNCHANGED <<fed, cfg, now, stop_evt, audio_q, segments_q, produced, segmenter,
                   main_pc, main_frame, worker_pc, worker_seg, worker_text,
                   listener_pc, cooldowns, last_accept>>

\* listener_thread: one datagram received and handled
Listener(data) ==
    /\ Running
    /\ listener_pc = "recv"
    /\ \E e \in {HandleTable[cfg.udp_token, cfg.allow_udp_cmd, data]} :
        /\ listening' = GateAfter(listening, e.gate)
        /\ last_ctrl' = IF e.gate = "keep" THEN last_ctrl ELSE e.gate
        /\ stale' = IF listening /\ ~GateAfter(listening, e.gate) /\ main_pc # "frame"
                    THEN stale \cup {segmenter.speech_frames[i].id :
                                        i \in 1..Len(segmenter.speech_frames)}
                    ELSE stale
        /\ out' = e.run
    /\ inp' = [got |-> TRUE, msg |-> data]
    /\ ret' = NoRet
    /\ UNCHANGED <<fed, cfg, now, stop_evt, audio_q, segments_q, produced, segmenter,
                   main_pc, main_frame, worker_pc, worker_seg, worker_text,
                   listener_pc, cooldowns, last_accept>>

\* listener_thread: the loop condition sees stop_evt set
ListenerExit ==
    /\ Running
    /\ listener_pc = "recv"
    /\ stop_evt
    /\ listener_pc' = "done"
    /\ Quiet
    /\ UNCHANGED <<fed, cfg, now, listening, stop_evt, audio_q, segments_q, produced,
                   segmenter, main_pc, main_frame, worker_pc, worker_seg, worker_text,
                   cooldowns, last_ctrl, stale, last_accept>>

\* the log of accepted matches: per phrase, the times of the last two
Logged(log, phrase, t) ==
    [p \in (DOMAIN log) \cup {phrase} |->
        IF p = phrase
        THEN [prev |-> IF phrase \in DOMAIN log THEN log[phrase].last ELSE NoTime,
              last |-> t]
        ELSE log[p]]

\* the record of a match() call kept in ret
Returned(r) ==
    [called |-> TRUE, text |-> r.text, matched |-> r.matched, phrase |-> r.phrase,
     score |-> r.score]

\* PhraseMatcher.match(text), called on its own
MatchCall(text) ==
    /\ Running
    /\ \E r \in {match(text, now, cooldowns)} :
        /\ cooldowns' = r.cooldowns
        /\ ret' = Returned(r)
        /\ last_accept' = IF r.matched THEN Logged(last_accept, r.phrase, now)
                          ELSE last_accept
    /\ inp' = NoInp
    /\ out' = NoRun
    /\ UNCHANGED <<fed, cfg, now, listening, stop_evt, audio_q, segments_q, produced,
                   segmenter, main_pc, main_frame, worker_pc, worker_seg, worker_text,
                   listener_pc, last_ctrl, stale>>

\* AudioInput._cb: the audio backend delivers one frame; speech is what the VAD
\* will say of it
AudioCallback(speech) ==
    /\ Running
    /\ main_pc # "done"
    /\ produced < MaxFrames
    /\ QueueHasRoom(audio_q)
    /\ produced' = produced + 1
    /\ audio_q' = Append(audio_q, [id |-> produced + 1, speech |-> speech])
    /\ Quiet
    /\ UNCHANGED <<fed, cfg, now, listening, stop_evt, segments_q, segmenter, main_pc,
                   main_frame, worker_pc, worker_seg, worker_text, listener_pc,
                   cooldowns, last_ctrl, stale, last_accept>>

\* main(): frame = audio.q.get(timeout=0.2) returns a frame
MainGet ==
    /\ main_pc = "loop"
    /\ ~stop_evt
    /\ audio_q # <<>>
    /\ main_frame' = Head(audio_q)
    /\ audio_q' = Tail(audio_q)
    /\ main_pc' = "got"
    /\ Quiet
    /\ UNCHANGED <<fed, cfg, now, listening, stop_evt, segments_q, produced, segmenter,
                   worker_pc, worker_seg, worker_text, listener_pc, cooldowns,
                   last_ctrl, stale, last_accept>>

\* main(): the get times out on an empty queue (queue.Empty: continue)
MainTimeout ==
    /\ main_pc = "loop"
    /\ ~stop_evt
    /\ audio_q = <<>>
    /\ Quiet
    /\ UNCHANGED <<fed, cfg, now, listening, stop_evt, audio_q, segments_q, produced,
                   segmenter, main_pc, main_frame, worker_pc, worker_seg, worker_text,
                   listener_pc, cooldowns, last_ctrl, stale, last_accept>>

\* main(): if not is_listening(): continue
MainGate ==
    /\ main_pc = "got"
    /\ main_pc' = IF listening THEN "frame" ELSE "loop"
    /\ main_frame' = IF listening THEN main_frame ELSE NoFrame
    /\ Quiet
    /\ UNCHANGED <<fed, cfg, now, listening, stop_evt, audio_q, segments_q, produced,
                   segmenter, worker_pc, worker_seg, worker_text, listener_pc,
                   cooldowns, last_ctrl, stale, last_accept>>

\* main(): seg, _ = segmenter.process_one_frame(frame); segments_q.put(seg)
MainProcess ==
    /\ main_pc = "frame"
    /\ \E r \in {process_one_frame(segmenter, main_frame, now,
                                    pad_frames(cfg.speech_pad_ms))} :
        /\ segmenter' = r.segmenter
        /\ r.emitted => QueueHasRoom(segments_q)
        /\ segments_q' = IF r.emitted THEN Append(segments_q, r.seg) ELSE segments_q
    /\ main_pc' = "loop"
    /\ main_frame' = NoFrame
    /\ Quiet
    /\ UNCHANGED <<fed, cfg, now, listening, stop_evt, audio_q, produced, worker_pc,
                   worker_seg, worker_text, listener_pc, cooldowns, last_ctrl, stale,
                   last_accept>>

MainExit_BlockingGet ==
    /\ main_pc = "loop"
    /\ stop_evt
    /\ audio_q # <<>>
    /\ main_pc' = "done"
    /\ Quiet
    /\ UNCHANGED <<fed, cfg, now, listening, stop_evt, audio_q, segments_q, produced,
                   segmenter, main_frame, worker_pc, worker_seg, worker_text,
                   listener_pc, cooldowns, last_ctrl, stale, last_accept>>

\* main(): the loop condition sees stop_evt set; the stream is closed
MainExit ==
    /\ main_pc = "loop"
    /\ stop_evt
    /\ main_pc' = "done"
    /\ Quiet
    /\ UNCHANGED <<fed, cfg, now, listening, stop_evt, audio_q, segments_q, produced,
                   segmenter, main_frame, worker_pc, worker_seg, worker_text,
                   listener_pc, cooldowns, last_ctrl, stale, last_accept>>

\* main() returns 0 and the interpreter exits, ending the daemon threads
ProcessExit ==
    /\ main_pc = "done"
    /\ main_pc' = "exited"
    /\ Quiet
    /\ UNCHANGED <<fed, cfg, now, listening, stop_evt, audio_q, segments_q, produced,
                   segmenter, main_frame, worker_pc, worker_seg, worker_text,
                   listener_pc, cooldowns, last_ctrl, stale, last_accept>>

\* asr_worker: seg = segments_q.get(timeout=0.2) returns a segment
WorkerGet ==
    /\ Running
    /\ worker_pc = "loop"
    /\ ~stop_evt
    /\ segments_q # <<>>
    /\ worker_seg' = Head(segments_q)
    /\ segments_q' = Tail(segments_q)
    /\ worker_pc' = "got"
    /\ Quiet
    /\ UNCHANGED <<fed, cfg, now, listening, stop_evt, audio_q, produced, segmenter,
                   main_pc, main_frame, worker_text, listener_pc, cooldowns,
                   last_ctrl, stale, last_accept>>

\* asr_worker: the get times out on an empty queue
WorkerTimeout ==
    /\ Running
    /\ worker_pc = "loop"
    /\ ~stop_evt
    /\ segments_q = <<>>
    /\ Quiet
    /\ UNCHANGED <<fed, cfg, now, listening, stop_evt, audio_q, segments_q, produced,
                   segmenter, main_pc, main_frame, worker_pc, worker_seg, worker_text,
                   listener_pc, cooldowns, last_ctrl, stale, last_accept>>

\* asr_worker: the gate check and the short-segment reject
WorkerGate ==
    /\ Running
    /\ worker_pc = "got"
    /\ LET go == listening
                 /\ Len(worker_seg) >= min_frames_before_transcribe(cfg.min_speech_ms)
       IN  /\ worker_pc' = IF go THEN "asr" ELSE "loop"
           /\ worker_seg' = IF go THEN worker_seg ELSE <<>>
    /\ Quiet
    /\ UNCHANGED <<fed, cfg, now, listening, stop_evt, audio_q, segments_q, produced,
                   segmenter, main_pc, main_frame, worker_text, listener_pc, cooldowns,
                   last_ctrl, stale, last_accept>>

\* asr_worker: transcriber.transcribe_pcm16 returns text; empty text is skipped
WorkerTranscribe(text) ==
    /\ Running
    /\ worker_pc = "asr"
    /\ worker_pc' = IF text = <<>> THEN "loop" ELSE "text"
    /\ worker_text' = text
    /\ worker_seg' = <<>>
    /\ Quiet
    /\ UNCHANGED <<fed, cfg, now, listening, stop_evt, audio_q, segments_q, produced,
                   segmenter, main_pc, main_frame, listener_pc, cooldowns, last_ctrl, stale,
                   last_accept>>

\* asr_worker: matcher.match(text), then run_command(result.command) on a match
WorkerMatch ==
    /\ Running
    /\ worker_pc = "text"
    /\ \E r \in {match(worker_text, now, cooldowns)} :
        /\ cooldowns' = r.cooldowns
        /\ ret' = Returned(r)
        /\ last_accept' = IF r.matched THEN Logged(last_accept, r.phrase, now)
                          ELSE last_accept
        /\ out' = IF r.matched THEN [src |-> "audio", cmd |-> r.command] ELSE NoRun
    /\ inp' = NoInp
    /\ worker_pc' = "loop"
    /\ worker_text' = <<>>
    /\ UNCHANGED <<fed, cfg, now, listening, stop_evt, audio_q, segments_q, produced,
                   segmenter, main_pc, main_frame, worker_seg, listener_pc, last_ctrl, stale>>

\* asr_worker: the loop condition sees stop_evt set
WorkerExit ==
    /\ Running
    /\ worker_pc = "loop"
    /\ stop_evt
    /\ worker_pc' = "done"
    /\ Quiet
    /\ UNCHANGED <<fed, cfg, now, listening, stop_evt, audio_q, segments_q, produced,
                   segmenter, main_pc, main_frame, worker_seg, worker_text,
                   listener_pc, cooldowns, last_ctrl, stale, last_accept>>

\* SpeechSegmenter.process_one_frame(frame), called on its own: the segments it
\* returns are kept in segments_q, in order
Feed(speech) ==
    /\ Running
    /\ Len(fed) < MaxFed
    /\ \E f \in {[id |-> Len(fed) + 1, speech |-> speech]} :
       \E r \in {process_one_frame(segmenter, f, now, pad_frames(cfg.speech_pad_ms))} :
        /\ segmenter' = r.segmenter
        /\ segments_q' = IF r.emitted THEN Append(segments_q, r.seg) ELSE segments_q
        /\ fed' = Append(fed, [id |-> f.id, speech |-> speech, t |-> now])
    /\ Quiet
    /\ UNCHANGED <<cfg, now, listening, stop_evt, audio_q, produced, main_pc,
                   main_frame, worker_pc, worker_seg, worker_text, listener_pc,
                   cooldowns, last_ctrl, stale, last_accept>>

\* ----------------------------------------------------------- specifications
Init == InitWith(PipelineConfigs, {ClockStart}, {<<>>})

Next ==
    \/ Tick
    \/ Sigint
    \/ \E data \in PipelineDatagrams : Listener(data)
    \/ ListenerExit
    \/ \E speech \in BOOLEAN : AudioCallback(speech)
    \/ MainGet
    \/ MainTimeout
    \/ MainGate
    \/ MainProcess
    \/ MainExit
    \/ ProcessExit
    \/ WorkerGet
    \/ WorkerTimeout
    \/ WorkerGate
    \/ \E text \in PipelineTranscripts : WorkerTranscribe(text)
    \/ WorkerMatch
    \/ WorkerExit

\* the whole pipeline: audio callback, frame loop, segment worker, listener
Spec == Init /\ [][Next]_vars

InitControl == InitWith(ControlConfigs, {ClockStart}, {<<>>})

NextControl ==
    \/ Tick
    \/ \E data \in ControlDatagrams : Listener(data)
    \/ \E text \in ControlTranscripts : MatchCall(text)

\* the control plane beside a matcher, over every token and flag setting
SpecControl == InitControl /\ [][NextControl]_vars

InitMatcher == InitWith(PipelineConfigs, {ClockStart}, {<<>>})

NextMatcher ==
    \/ Tick
    \/ \E text \in MatcherTranscripts : MatchCall(text)

\* the matcher alone: any sequence of match() calls as the clock advances
SpecMatcher == InitMatcher /\ [][NextMatcher]_vars

\* the matcher on a machine whose clock reads the epoch when it starts (no
\* battery-backed clock, no time sync yet): time.time() counts from 0
InitMatcherEpoch == InitWith(PipelineConfigs, {0}, {<<>>})

SpecMatcherEpoch == InitMatcherEpoch /\ [][NextMatcher]_vars

\* the orders that open and close the gate
GateDatagrams == { CTRL \o PAUSE, CTRL \o RESUME }

\* the pipeline with the clock left out: threads, queues, gate and stop flag
NextShutdown ==
    \/ Sigint
    \/ \E data \in GateDatagrams : Listener(data)
    \/ ListenerExit
    \/ \E speech \in BOOLEAN : AudioCallback(speech)
    \/ MainGet
    \/ MainTimeout
    \/ MainGate
    \/ MainProcess
    \/ MainExit
    \/ ProcessExit
    \/ WorkerGet
    \/ WorkerTimeout
    \/ WorkerGate
    \/ \E text \in PipelineTranscripts : WorkerTranscribe(text)
    \/ WorkerMatch
    \/ WorkerExit

\* every thread that can take a step is scheduled in the end; the calls it makes
\* (process_one_frame, transcribe, match, run_command) return. Nothing is assumed
\* of the signal, the audio callback or the datagrams.
FairThreads ==
    /\ WF_vars(MainGet) /\ WF_vars(MainGate) /\ WF_vars(MainProcess)
    /\ WF_vars(MainExit) /\ WF_vars(ProcessExit)
    /\ WF_vars(WorkerGet) /\ WF_vars(WorkerGate)
    /\ WF_vars(\E text \in PipelineTranscripts : WorkerTranscribe(text))
    /\ WF_vars(WorkerMatch) /\ WF_vars(WorkerExit)
    /\ WF_vars(ListenerExit)

SpecShutdown == Init /\ [][NextShutdown]_vars /\ FairThreads

\* --min_speech 0.04 and 0.06 (min_frames 2 and 3), --speech_pad_ms 0 and 20
MinSpeechConfigs ==
    [udp_token : {<<>>}, allow_udp_cmd : {FALSE}, speech_pad_ms : {0, 20},
     min_speech_ms : {40, 60}]

InitMinSpeech == InitWith(MinSpeechConfigs, {ClockStart}, {<<>>})

\* the audio path alone: callback, frame loop and segment worker
NextMinSpeech ==
    \/ \E speech \in BOOLEAN : AudioCallback(speech)
    \/ MainGet
    \/ MainTimeout
    \/ MainGate
    \/ MainProcess
    \/ WorkerGet
    \/ WorkerTimeout
    \/ WorkerGate
    \/ \E text \in PipelineTranscripts : WorkerTranscribe(text)
    \/ WorkerMatch

SpecMinSpeech == InitMinSpeech /\ [][NextMinSpeech]_vars

\* the audio path beside the control plane, with the clock left out
NextGate ==
    \/ \E data \in PipelineDatagrams : Listener(data)
    \/ \E speech \in BOOLEAN : AudioCallback(speech)
    \/ MainGet
    \/ MainTimeout
    \/ MainGate
    \/ MainProcess
    \/ WorkerGet
    \/ WorkerTimeout
    \/ WorkerGate
    \/ \E text \in PipelineTranscripts : WorkerTranscribe(text)
    \/ WorkerMatch

SpecGate == Init /\ [][NextGate]_vars

\* --speech_pad_ms 0, 20 and 40: pad_frames 0, 1 and 2
SegmenterConfigs ==
    [udp_token : {<<>>}, allow_udp_cmd : {FALSE}, speech_pad_ms : {0, 20, 40},
     min_speech_ms : {250}]

InitSegmenter == InitWith(SegmenterConfigs, {ClockStart}, {<<>>})

NextSegmenter ==
    \/ Tick
    \/ \E speech \in BOOLEAN : Feed(speech)

\* the segmenter alone: any sequence of frames as the clock advances
SpecSegmenter == InitSegmenter /\ [][NextSegmenter]_vars

\* normalize_text(s), applied to the string held in worker_text
Normalize ==
    /\ Running
    /\ worker_pc \in {"loop", "normalized"}
    /\ worker_text' = normalize_text(worker_text)
    /\ worker_pc' = "normalized"
    /\ Quiet
    /\ UNCHANGED <<fed, cfg, now, listening, stop_evt, audio_q, segments_q, produced,
                   segmenter, main_pc, main_frame, worker_seg, listener_pc, cooldowns,
                   last_ctrl, stale, last_accept>>

\* characters of the strings tried: letters of both cases, accented letters, a
\* letter-like symbol, whitespace and punctuation
NormalizeAlphabet == {"a", "H", "e_acute", "E_acute", "script_H", " ", "nbsp", "!"}

RECURSIVE StringsUpTo(_)
StringsUpTo(n) ==
    IF n = 0 THEN {<<>>}
    ELSE StringsUpTo(n - 1)
           \cup {Append(s, c) : s \in StringsUpTo(n - 1), c \in NormalizeAlphabet}

InitNormalize == InitWith(SegmenterConfigs, {ClockStart}, StringsUpTo(MaxLen))

NextNormalize == Normalize

\* normalize_text alone: applied, and applied again, to any short string
SpecNormalize == InitNormalize /\ [][NextNormalize]_vars

\* ------------------------------------------------------------------ claims
\* C1: whenever a frame is handed to process_one_frame, and whenever a transcript
\* is handed to match (and its command run), the Listening Gate is true.
C1_GateClosedBlocksWork ==
    [][ ((main_pc = "frame" /\ main_pc' = "loop")
            \/ (worker_pc = "text" /\ worker_pc' = "loop")) => listening ]_vars

Ids(seg) == {seg[i].id : i \in 1..Len(seg)}

\* C2: a pause that takes effect mid-utterance discards the utterance: no segment
\* emitted afterwards holds a frame the segmenter had buffered when the gate closed.
\* (stale leaves out a pause that lands between the frame loop's gate check and
\* its process_one_frame call, so a violation owes nothing to that window.)
C2_PauseDiscardsUtterance ==
    /\ \A i \in 1..Len(segments_q) : Ids(segments_q[i]) \cap stale = {}
    /\ Ids(worker_seg) \cap stale = {}

\* a capacity smaller than the number of frames a run delivers
ClaimedCapacity == MaxFrames - 1

\* C3: neither queue ever holds more items than a fixed capacity.
C3_QueuesBounded ==
    /\ Len(audio_q) <= ClaimedCapacity
    /\ Len(segments_q) <= ClaimedCapacity

\* C4: two Match Results for the same phrase are at least cooldown_sec apart.
C4_CooldownSpacing ==
    \A p \in DOMAIN last_accept :
        last_accept[p].prev # NoTime
            => last_accept[p].last - last_accept[p].prev >= cooldown_sec

\* a phrase has been accepted twice
C4_Witness ==
    \E p \in DOMAIN last_accept : last_accept[p].prev # NoTime /\ ret.matched

\* C5: the cooldown registry changes only in a match() call that returns a Match
\* Result; and a transcript whose best phrase scores at or above the threshold,
\* arriving cooldown_sec or more after that phrase's last accepted match, is
\* accepted.
C5_RegistryOnlyOnAccept ==
    [][ /\ cooldowns' # cooldowns => ret'.called /\ ret'.matched
        /\ ( /\ ret'.called
             /\ BestTable[ret'.text].scored
             /\ BestTable[ret'.text].score >= threshold
             /\ BestTable[ret'.text].phrase \in DOMAIN last_accept
             /\ now' - last_accept[BestTable[ret'.text].phrase].last >= cooldown_sec )
           => ret'.matched /\ ret'.phrase = BestTable[ret'.text].phrase ]_vars

\* a repeat was suppressed inside the window and left the registry as it was
C5_Witness ==
    /\ ret.called /\ ~ret.matched /\ ret.score >= threshold
    /\ \E p \in DOMAIN cooldowns : cooldowns[p] < now /\ last_accept[p].last = cooldowns[p]

\* the datagram carries the configured token as its exact prefix
ExactPrefix(data) == StartsWith(data, Tok(cfg.udp_token, <<>>))

\* the step changes neither the gate nor the registry and runs no command
NoEffect == listening' = listening /\ cooldowns' = cooldowns /\ out' = NoRun

\* C6 as stated: with a token configured, a datagram that does not start with the
\* exact prefix "<token>:" changes no state and runs no command.
C6_Original ==
    [][ (inp'.got /\ cfg.udp_token # <<>> /\ ~ExactPrefix(inp'.msg)) => NoEffect ]_vars

\* C6 amended: with a token configured, a datagram whose decoded text, once its
\* leading and trailing whitespace is removed, does not start with "<token>:"
\* changes no state and runs no command.
C6_TokenEnforced ==
    [][ (inp'.got /\ cfg.udp_token # <<>> /\ ~ExactPrefix(Strip(Decode(inp'.msg))))
            => NoEffect ]_vars

\* a valid CTRL:PAUSE without the token was received and the gate stayed open
C6_Witness ==
    /\ cfg.udp_token # <<>>
    /\ inp.got /\ inp.msg = CTRL \o PAUSE
    /\ listening /\ last_ctrl = "none"

\* C7: with token T configured, the datagram T:R has the effect the datagram R has
\* when no token is configured.
C7_TokenTransparent ==
    [][ (inp'.got /\ cfg.udp_token # <<>> /\ ExactPrefix(inp'.msg))
            => \E e \in {Handle(<<>>, cfg.allow_udp_cmd,
                                SubSeq(inp'.msg, Len(cfg.udp_token) + 2, Len(inp'.msg)))} :
                  /\ listening' = GateAfter(listening, e.gate)
                  /\ out' = e.run ]_vars

\* C8: the gate starts true, is false after a PAUSE order and true after a RESUME
\* order, and nothing else changes it: it always equals the effect of the last
\* order carried out.
C8_GateFollowsLastOrder ==
    /\ listening = (last_ctrl # "pause")
    /\ (inp.got /\ cfg.udp_token = <<>> /\ inp.msg = CTRL \o PAUSE) => ~listening
    /\ (inp.got /\ cfg.udp_token = <<>> /\ inp.msg = CTRL \o RESUME) => listening

\* a TRIGGER datagram was handled while paused, frames were dropped, and the gate
\* is still false
C8_Witness ==
    /\ ~listening
    /\ inp.got /\ StartsWith(inp.msg, TRIGGER)
    /\ produced > 0 /\ audio_q = <<>>

\* the message the listener dispatches on: the datagram once stripped and, with a
\* token configured, cut after its first colon
HasBody(token, data) == token = <<>> \/ TokenAccepts(token, Strip(Decode(data)))
Body(token, data) ==
    IF token = <<>> THEN Strip(Decode(data)) ELSE AfterColon(Strip(Decode(data)))

\* per token and datagram: whether the listener dispatches on a message with the
\* given verb, and that message's payload
VerbTable ==
    [t \in Tokens, d \in ControlDatagrams |->
        IF ~HasBody(t, d) THEN [verb |-> "dropped", payload |-> <<>>]
        ELSE IF StartsWith(Upper(Body(t, d)), CTRL)
        THEN [verb |-> "CTRL", payload |-> AfterColon(Body(t, d))]
        ELSE IF StartsWith(Upper(Body(t, d)), TRIGGER)
        THEN [verb |-> "TRIGGER", payload |-> AfterColon(Body(t, d))]
        ELSE IF StartsWith(Upper(Body(t, d)), CMD)
        THEN [verb |-> "CMD", payload |-> AfterColon(Body(t, d))]
        ELSE [verb |-> "other", payload |-> <<>>]]

Verb(data) == VerbTable[cfg.udp_token, data].verb
Payload(data) == VerbTable[cfg.udp_token, data].payload

\* C9 as stated: a CTRL message whose payload is not exactly PAUSE or RESUME
\* leaves the gate unchanged.
C9_Original ==
    [][ (inp'.got /\ Verb(inp'.msg) = "CTRL" /\ Payload(inp'.msg) \notin {PAUSE, RESUME})
            => listening' = listening ]_vars

\* C9 amended: a CTRL message whose payload, upper-cased and stripped of
\* surrounding whitespace, is neither PAUSE nor RESUME leaves the gate unchanged;
\* the payload is matched case-insensitively like the verb, so "ctrl:pause" clears
\* the gate.
C9_CtrlPayload ==
    [][ (inp'.got /\ Verb(inp'.msg) = "CTRL")
            => \E a \in {Strip(Upper(Payload(inp'.msg)))} :
                  /\ a \notin {PAUSE, RESUME} => listening' = listening
                  /\ a = PAUSE => ~listening'
                  /\ a = RESUME => listening' ]_vars

\* "CTRL:PAUSED" was received on an open gate and ignored
C9_Witness ==
    /\ cfg.udp_token = <<>>
    /\ inp.got /\ inp.msg = CTRL \o PAUSE \o <<"D">>
    /\ listening

\* C10: shell text from a datagram reaches run_command only when allow_cmd is set.
C10_CmdNeedsFlag ==
    /\ out.src = "cmd" => cfg.allow_udp_cmd /\ inp.got
    /\ (~cfg.allow_udp_cmd /\ out # NoRun)
          => \E i \in 1..Len(triggers) : out.cmd = triggers[i].cmd

\* a CMD datagram was received with the flag off, and nothing ran
C10_Witness ==
    /\ ~cfg.allow_udp_cmd
    /\ inp.got /\ Verb(inp.msg) = "CMD" /\ Payload(inp.msg) # <<>>
    /\ out = NoRun

\* C11 as stated: a TRIGGER datagram runs the bound command exactly when the
\* normalized phrase is a key of the Trigger Table, and leaves the registry alone.
C11_Original ==
    [][ (inp'.got /\ Verb(inp'.msg) = "TRIGGER")
            => /\ (out' # NoRun) <=> HasKey(triggers, normalize_text(Strip(Payload(inp'.msg))))
               /\ cooldowns' = cooldowns ]_vars

\* C11 amended: a TRIGGER datagram runs the bound command exactly when the
\* normalized phrase is a key of the Trigger Table bound to a non-empty command;
\* the step takes no account of the cooldown registry and leaves it as it was.
C11_TriggerBypassesCooldown ==
    [][ (inp'.got /\ Verb(inp'.msg) = "TRIGGER")
            => \E p \in {normalize_text(Strip(Payload(inp'.msg)))} :
                /\ (HasKey(triggers, p) /\ Lookup(triggers, p) # <<>>)
                      => out' = [src |-> "trigger", cmd |-> Lookup(triggers, p)]
                /\ ~(HasKey(triggers, p) /\ Lookup(triggers, p) # <<>>) => out' = NoRun
                /\ cooldowns' = cooldowns
                /\ last_accept' = last_accept ]_vars

\* a remote trigger fired inside the cooldown window of its phrase
C11_Witness ==
    /\ inp.got /\ out.src = "trigger"
    /\ \E p \in DOMAIN cooldowns :
          /\ Lookup(triggers, p) = out.cmd
          /\ now - cooldowns[p] < cooldown_sec

\* no frame is in two of the segments, nor twice in one
NoFrameTwice(segs) ==
    /\ \A i \in 1..Len(segs) : Cardinality(Ids(segs[i])) = Len(segs[i])
    /\ \A i, j \in 1..Len(segs) : i # j => Ids(segs[i]) \cap Ids(segs[j]) = {}

\* C12: for any sequence of frames, no frame is in more than one emitted segment;
\* a call that finalizes (the segmenter leaves IN_SPEECH) returns exactly one
\* segment, holding the frames it had buffered, and a call that does not finalize
\* returns none; right after an emission the segmenter is IDLE with an empty
\* buffer, trailing-silence counter 0 and no start time.
C12_EmitOnceAndReset ==
    [][ /\ NoFrameTwice(segments_q')
        /\ (segmenter.in_speech /\ ~segmenter'.in_speech)
              <=> Len(segments_q') = Len(segments_q) + 1
        /\ Len(segments_q') # Len(segments_q) + 1 => segments_q' = segments_q
        /\ Len(segments_q') = Len(segments_q) + 1
              => /\ SubSeq(segments_q', 1, Len(segments_q)) = segments_q
                 /\ Ids(segmenter.speech_frames) \subseteq Ids(segments_q'[Len(segments_q')])
                 /\ segmenter'.speech_frames = <<>>
                 /\ segmenter'.trailing_non_speech = 0
                 /\ ~segmenter'.in_speech
                 /\ segmenter'.start_time = NoTime ]_vars

\* two segments have been emitted, the second just now
C12_Witness ==
    /\ Len(segments_q) = 2
    /\ fed # <<>> /\ fed[Len(fed)].id \in Ids(segments_q[2])
    /\ segmenter = reset

\* the count of C13 has read no frame yet
NoRunYet == [open |-> FALSE, counted |-> FALSE, start |-> NoTime, sil |-> 0, count |-> 0]

RECURSIVE CountRuns(_, _, _, _, _)
\* The count C13 names, taken over the frames alone, from frame i on. A speech run
\* opens at a speech frame met outside a run, at that frame's time. (a) It closes,
\* and counts, at a non-speech frame that brings its consecutive trailing silence
\* to pad or more. (b) It counts at the first frame whose time exceeds its opening
\* time by more than max_segment_sec; with fresh set it also closes there, so that
\* speech going on after the cutoff opens a new run, and without fresh it goes on
\* until its trailing silence closes it, counting once.
CountRuns(frames, i, st, pad, fresh) ==
    IF i > Len(frames) THEN st.count
    ELSE LET f  == frames[i]
             s1 == IF st.open THEN [st EXCEPT !.sil = IF f.speech THEN 0 ELSE @ + 1]
                   ELSE IF f.speech
                   THEN [st EXCEPT !.open = TRUE, !.counted = FALSE, !.start = f.t,
                                   !.sil = 0]
                   ELSE st
             one == IF s1.counted THEN 0 ELSE 1
         IN  IF ~s1.open THEN CountRuns(frames, i + 1, s1, pad, fresh)
             ELSE IF ~f.speech /\ s1.sil >= pad
             THEN CountRuns(frames, i + 1,
                            [s1 EXCEPT !.open = FALSE, !.count = @ + one], pad, fresh)
             ELSE IF f.t - s1.start > max_segment_sec
             THEN CountRuns(frames, i + 1,
                            [s1 EXCEPT !.open = ~fresh, !.counted = TRUE,
                                       !.count = @ + one], pad, fresh)
             ELSE CountRuns(frames, i + 1, s1, pad, fresh)

\* C13 as stated: the number of segments emitted equals the number of speech runs
\* that (a) meet pad_frames consecutive trailing silence frames or (b) exceed
\* max_segment_sec while in speech, each run counted once.
C13_Original ==
    Len(segments_q) = CountRuns(fed, 1, NoRunYet, pad_frames(cfg.speech_pad_ms), FALSE)

\* C13 amended: the number of segments emitted equals the number of utterances
\* ended, an utterance opening at the first speech frame after the start or after
\* the previous one ended, and ending at the first frame where (a) its trailing
\* silence reaches pad_frames or (b) the time since its first frame exceeds
\* max_segment_sec; speech that goes on after a cutoff opens a new utterance.
C13_SegmentCount ==
    Len(segments_q) = CountRuns(fed, 1, NoRunYet, pad_frames(cfg.speech_pad_ms), TRUE)

\* one continuous speech run gave two segments: the first cut by max_segment_sec,
\* the second ended by silence
C13_Witness ==
    /\ Len(segments_q) = 2
    /\ \A i \in 1..(Len(fed) - 1) : fed[i].speech
    /\ ~fed[Len(fed)].speech
    /\ segmenter = reset

RECURSIVE TailSilence(_)
\* how many non-speech frames end the sequence of frames
TailSilence(frames) ==
    IF frames = <<>> \/ frames[Len(frames)].speech THEN 0
    ELSE 1 + TailSilence(SubSeq(frames, 1, Len(frames) - 1))

Min(a, b) == IF a <= b THEN a ELSE b

\* C14: every emitted segment is a stretch of consecutive input frames that ends
\* with exactly min(n, pad_frames) non-speech frames, n being the length of the run
\* of non-speech frames that ends the input at the finalizing call; for pad_frames
\* 0, 1 and 2, whether silence or max_segment_sec finalized it.
C14_PadInclusion ==
    [][ Len(segments_q') = Len(segments_q) + 1
          => \E seg \in {segments_q'[Len(segments_q')]} :
                /\ seg # <<>>
                /\ \A i \in 1..(Len(seg) - 1) : seg[i + 1].id = seg[i].id + 1
                /\ TailSilence(seg)
                     = Min(TailSilence(fed'), pad_frames(cfg.speech_pad_ms)) ]_vars

\* max_segment_sec cut a segment on its first trailing non-speech frame, short of
\* pad_frames
C14_Witness ==
    /\ segments_q # <<>> /\ fed # <<>>
    /\ fed[Len(fed)].id \in Ids(segments_q[Len(segments_q)])
    /\ TailSilence(segments_q[Len(segments_q)]) = 1
    /\ pad_frames(cfg.speech_pad_ms) = 2

\* C15: in IN_SPEECH, the first frame processed more than max_segment_sec after
\* the utterance's start time is returned with the buffered frames as a segment,
\* whatever the trailing silence, and leaves the segmenter IDLE; a speech frame
\* forces a segment out no sooner than that; and a speech frame met in IDLE opens
\* a buffer holding that frame alone, with the time of its call as start time.
C15_MaxDurationCutoff ==
    [][ fed' # fed
          => \E f \in {fed'[Len(fed')]} :
                /\ (segmenter.in_speech /\ now - segmenter.start_time > max_segment_sec)
                      => /\ Len(segments_q') = Len(segments_q) + 1
                         /\ Ids(segmenter.speech_frames)
                               \subseteq Ids(segments_q'[Len(segments_q')])
                         /\ segmenter' = reset
                /\ (f.speech /\ Len(segments_q') = Len(segments_q) + 1)
                      => /\ segmenter.in_speech
                         /\ now - segmenter.start_time > max_segment_sec
                /\ (f.speech /\ ~segmenter.in_speech)
                      => /\ segmenter'.speech_frames = <<[id |-> f.id, speech |-> TRUE]>>
                         /\ segmenter'.start_time = now
                         /\ segments_q' = segments_q ]_vars

\* a segment was cut on a speech frame, and the next speech frame has opened a new
\* buffer with a later start time
C15_Witness ==
    /\ segments_q # <<>> /\ Len(fed) >= 3
    /\ \E seg \in {segments_q[Len(segments_q)]} :
          /\ seg[Len(seg)].speech
          /\ seg[Len(seg)].id = Len(fed) - 1
    /\ Ids(segmenter.speech_frames) = {Len(fed)}
    /\ segmenter.start_time = fed[Len(fed)].t
    /\ segmenter.start_time > fed[1].t + max_segment_sec

\* C16: with require_all_tokens on, match() never returns a phrase of more than
\* one distinct token for a transcript whose tokens, once normalized, do not
\* include all of the phrase's tokens, however close the two strings are; and no
\* single-token phrase is left out: the score match() returns for a transcript of
\* min_chars or more is at least its similarity to every single-token phrase.
C16_TokenFilter ==
    ret.called
      => \E txt \in {normalize_text(ret.text)} :
            /\ (ret.matched /\ Cardinality(TokenSet(ret.phrase)) > 1)
                  => TokenSet(ret.phrase) \subseteq TokenSet(txt)
            /\ Len(txt) >= min_chars
                  => \A i \in 1..Len(matcher_triggers) :
                        Cardinality(TokenSet(matcher_triggers[i].phrase)) = 1
                          => ret.score >= ratio(txt, matcher_triggers[i].phrase)

\* "goon" scores 88 against "go on" and was not matched
C16_Witness ==
    /\ ret.called /\ ~ret.matched
    /\ ret.text = <<"g","o","o","n">>
    /\ ratio(ret.text, <<"g","o"," ","o","n">>) >= threshold
    /\ ret.score < threshold

\* C17: normalize_text is idempotent: applied to a string it has returned, it
\* returns that string.
C17_NormalizeIdempotent ==
    worker_pc = "normalized" => normalize_text(worker_text) = worker_text

\* C18: match() returns a Match Result exactly when the best candidate's score is
\* at or above the threshold and that phrase was not accepted within the previous
\* cooldown_sec, a phrase never accepted being eligible at any clock value; the
\* result names the best phrase and its score; otherwise it returns no-match with
\* the best score, 0 when nothing was scored.
C18_MatchResult ==
    [][ ret'.called
          => \E b \in {BestTable[ret'.text]} :
                /\ ret'.matched
                     <=> /\ b.scored /\ b.score >= threshold
                         /\ \/ b.phrase \notin DOMAIN last_accept
                            \/ now' - last_accept[b.phrase].last >= cooldown_sec
                /\ ret'.matched => ret'.phrase = b.phrase /\ ret'.score = b.score
                /\ ~ret'.matched => ret'.score = (IF b.scored THEN b.score ELSE 0) ]_vars

C20_InFlightCompletes ==
    [][ main_pc' = "exited" => worker_pc \notin {"asr", "text"} ]_vars

\* the segment has fewer frames than int(min_speech_sec * 1000 / frame_ms)
TooShort(seg) == (Len(seg) + 1) * frame_ms <= cfg.min_speech_ms

\* C21: min_speech_sec plays no part in the segmenter: every finalize puts its
\* segment on segments_q, however short; and a dequeued segment of fewer than
\* min_frames frames goes back to the loop untranscribed: the worker reaches the
\* transcription only from the check with a segment of min_frames or more, the
\* match only from a transcription, and a command is run only by that match.
C21_MinSpeechDownstream ==
    [][ /\ (main_pc = "frame" /\ segmenter.in_speech /\ ~segmenter'.in_speech)
              => /\ Len(segments_q') = Len(segments_q) + 1
                 /\ Ids(segmenter.speech_frames)
                       \subseteq Ids(segments_q'[Len(segments_q')])
        /\ (worker_pc = "got" /\ worker_pc' # "got" /\ TooShort(worker_seg))
              => worker_pc' = "loop" /\ worker_seg' = <<>>
        /\ (worker_pc' = "asr" /\ worker_pc # "asr")
              => worker_pc = "got" /\ ~TooShort(worker_seg)
        /\ (worker_pc' = "text" /\ worker_pc # "text") => worker_pc = "asr"
        /\ (ret'.called \/ out' # NoRun) => worker_pc = "text" ]_vars

\* the segmenter has emitted a segment of two frames, one short of min_frames, and
\* the worker has dequeued it
C21_Witness ==
    /\ worker_pc = "got" /\ listening
    /\ Len(worker_seg) = 2 /\ TooShort(worker_seg)
    /\ min_frames_before_transcribe(cfg.min_speech_ms) = 3

\* C22: the gate stands only in the audio path. A frame or a segment that meets
\* a closed gate at its check is dropped, while a TRIGGER datagram whose phrase the
\* Trigger Table binds to a command, and a CMD datagram with shell text when
\* allow_cmd is set, has its command run, gate open or closed, and leaves the gate
\* as it was.
C22_GateOnlyAudio ==
    [][ /\ (main_pc = "got" /\ main_pc' # "got" /\ ~listening) => main_pc' = "loop"
        /\ (worker_pc = "got" /\ worker_pc' # "got" /\ ~listening) => worker_pc' = "loop"
        /\ (inp'.got /\ Verb(inp'.msg) = "TRIGGER")
              => \E p \in {normalize_text(Strip(Payload(inp'.msg)))} :
                    (HasKey(triggers, p) /\ Lookup(triggers, p) # <<>>)
                      => /\ out' = [src |-> "trigger", cmd |-> Lookup(triggers, p)]
                         /\ listening' = listening
        /\ (inp'.got /\ Verb(inp'.msg) = "CMD" /\ cfg.allow_udp_cmd
                /\ Strip(Payload(inp'.msg)) # <<>>)
              => /\ out' = [src |-> "cmd", cmd |-> Strip(Payload(inp'.msg))]
                 /\ listening' = listening ]_vars

\* with the gate closed by a PAUSE and a frame dropped at the gate check, a
\* TRIGGER datagram has run its command
C22_Witness ==
    /\ ~listening /\ last_ctrl = "pause"
    /\ inp.got /\ out.src = "trigger"
    /\ produced > 0 /\ audio_q = <<>> /\ main_pc = "loop" /\ segmenter = reset
    /\ segments_q = <<>> /\ worker_pc = "loop"

====
